---- MODULE Spec2Model ----
(***************************************************************************)
(* A model of Bot.py: the websocket session (start_websocket, the          *)
(* callbacks on_open/on_message/on_error/on_close, reconnect_websocket and  *)
(* the keepalive thread send_ping), the trade ledger global_data           *)
(* (update_global_data) and the moving-average strategy                    *)
(* (backtest_strategy).                                                    *)
(*                                                                         *)
(* The main thread is a call stack of frames [fn, pc, ws]; pc names the    *)
(* source line the frame is about to execute.  The websocket library       *)
(* (WebSocketApp.run_forever) is the environment: it connects, delivers    *)
(* frames, reports errors and closes, and calls the callbacks on the main  *)
(* thread.  Every keepalive thread is a small program counter of its own.  *)
(* Time is discrete: Tick advances it to the end of the next sleep.        *)
(***************************************************************************)
EXTENDS Integers, Sequences, FiniteSets, TLC

\* ---------------------------------------------------------------- bounds
MaxConn == 2      \* start_websocket invocations (connections, keepalive threads)
MaxTicks == 2     \* rows the ledger may hold in the session specification
MaxPongs == 1     \* heartbeats answered in the session specification
MaxBatch == 2     \* elements of one trade payload
FreeTicks == 2    \* rows of a price series after the first SlowWindow - 1
MaxEvals == 2     \* calls of backtest_strategy on one series

\* ------------------------------------------------------ program constants
ReconnectDelay == 5
PingInterval == 30

VARIABLES
  global_websocket,     \* 0 (None) or the id of the current WebSocketApp
  ping_thread_running,  \* the module-level flag
  global_data,          \* the ledger: rows [time, price, volume]; time 0 is NaT
  stack,                \* the main thread's call stack
  sock,                 \* per WebSocketApp: "none", "open", "error", "closed"
  nconn,                \* WebSocketApps created so far
  tpc,                  \* per keepalive thread: where it is in send_ping
  tslept,               \* per keepalive thread: time spent in the current sleep(30)
  slept,                \* time the main thread has spent in the current sleep(5)
  subscribes,           \* per connection: subscribe requests sent
  pongs,                \* per connection: pong messages sent
  last_ping,            \* history: <<thread, connection>> of the last ping sent
  attempt_delay,        \* per connection: time slept before it was created
  feed_ticks,           \* history: the ticks decoded from the feed, in order
  ledger_at_close,      \* history: the ledger when the last connection failed
  rejected,             \* history: the connection whose subscription the venue last refused (0: none)
  strategy_calls,       \* history: invocations of backtest_strategy
  heartbeats,           \* history: per connection, heartbeat events received
  decode_error          \* the last call of on_message ended in its except clause (line 86)

session_vars == <<global_websocket, ping_thread_running, global_data, stack, sock,
                  nconn, tpc, tslept, slept, subscribes, pongs, last_ping,
                  attempt_delay, feed_ticks, ledger_at_close, rejected,
                  strategy_calls, heartbeats, decode_error>>

VARIABLES
  data,                 \* the DataFrame handed to backtest_strategy, by column
  position,             \* backtest_strategy's local: 0 flat, 1 long, -1 short
  entry_price,          \* backtest_strategy's local: the entry price, or Missing
  i,                    \* the row the for loop of line 155 is at (rows count from 1)
  spc,                  \* where backtest_strategy is: "idle", "loop", "metrics", "done"
  orders,               \* history: the calls of execute_trade [side, row, call]
  logged,               \* what the loop body logged at the last row, "none" if nothing
  sharpe,               \* what line 231 or 235 logged: "none", "nan", "value"
  order_result          \* how the trading API answered execute_trade at the last row

strategy_vars == <<data, position, entry_price, i, spc, orders, logged, sharpe,
                   order_result>>

vars == <<session_vars, strategy_vars>>

Conns == 1..MaxConn

\* ---------------------------------------------------------- call stack
Top == stack[Len(stack)]

Frame(fn, pc, ws) == [fn |-> fn, pc |-> pc, ws |-> ws]

\* the stack with the top frame's pc replaced
SetPc(pc) == [stack EXCEPT ![Len(stack)].pc = pc]

\* a call: the caller resumes at `after` when the callee returns
Call(s, after, callee) == Append([s EXCEPT ![Len(s)].pc = after], callee)

\* the returns that follow the end of a function: a frame whose remaining code is
\* empty ("ret") returns to its caller, and so does run_forever once on_close has
\* returned ("closed"); the unwinding stops at a frame that has code left to run
RECURSIVE Unwind(_)
Unwind(s) ==
  IF s = <<>> THEN s
  ELSE LET f == s[Len(s)] IN
       IF f.pc = "ret" \/ (f.fn = "run_forever" /\ f.pc = "closed")
         THEN Unwind(SubSeq(s, 1, Len(s) - 1))
         ELSE s

At(fn, pc) == stack # <<>> /\ Top.fn = fn /\ Top.pc = pc

UnchangedThreads == UNCHANGED <<tpc, tslept>>
UnchangedSent == UNCHANGED <<subscribes, pongs, last_ping, heartbeats>>
UnchangedLedger ==
  UNCHANGED <<global_data, feed_ticks, strategy_calls, decode_error, strategy_vars>>
UnchangedHistory == UNCHANGED <<attempt_delay, ledger_at_close, rejected>>

\* ---------------------------------------------------------------- main
main ==
  /\ At("main", "L321")
  /\ stack' = Call(stack, "ret", Frame("start_websocket", "L293", 0))
  /\ UNCHANGED <<global_websocket, ping_thread_running, sock, nconn, slept>>
  /\ UnchangedThreads /\ UnchangedSent /\ UnchangedLedger /\ UnchangedHistory

\* ------------------------------------------------------ start_websocket
\* lines 292-299: the new WebSocketApp becomes the global handle
start_websocket_L293 ==
  /\ At("start_websocket", "L293")
  /\ nconn < MaxConn
  /\ nconn' = nconn + 1
  /\ global_websocket' = nconn + 1
  /\ sock' = [sock EXCEPT ![nconn + 1] = "none"]
  /\ attempt_delay' = [attempt_delay EXCEPT ![nconn + 1] = slept]
  /\ stack' = [stack EXCEPT ![Len(stack)] = Frame("start_websocket", "L304", nconn + 1)]
  /\ UNCHANGED <<ping_thread_running, slept, ledger_at_close, rejected>>
  /\ UnchangedThreads /\ UnchangedSent /\ UnchangedLedger

\* lines 302-304: the keepalive thread is started
start_websocket_L304 ==
  /\ At("start_websocket", "L304")
  /\ tpc' = [tpc EXCEPT ![Top.ws] = "while"]
  /\ stack' = SetPc("L305")
  /\ UNCHANGED <<global_websocket, ping_thread_running, sock, nconn, slept, tslept>>
  /\ UnchangedSent /\ UnchangedLedger /\ UnchangedHistory

\* lines 305-308: the flag is set, then run_forever is entered
start_websocket_L305 ==
  /\ At("start_websocket", "L305")
  /\ ping_thread_running' = TRUE
  /\ stack' = Call(stack, "ret", Frame("run_forever", "connect", Top.ws))
  /\ UNCHANGED <<global_websocket, sock, nconn, slept>>
  /\ UnchangedThreads /\ UnchangedSent /\ UnchangedLedger /\ UnchangedHistory

\* lines 309-310: run_forever raises; the except clause logs the exception and
\* start_websocket returns to its caller, which has nothing left to run
start_websocket_L310 ==
  /\ stack # <<>> /\ Top.fn = "run_forever"
  /\ stack' = Unwind(SubSeq(stack, 1, Len(stack) - 1))
  /\ UNCHANGED <<global_websocket, ping_thread_running, sock, nconn, slept>>
  /\ UnchangedThreads /\ UnchangedSent /\ UnchangedLedger /\ UnchangedHistory

\* ------------------------------------------- the websocket library (environment)
\* run_forever connected: the library opens the socket and calls on_open, which
\* sends the subscribe request (subscribe_to_trade_data)
on_open ==
  /\ At("run_forever", "connect")
  /\ sock' = [sock EXCEPT ![Top.ws] = "open"]
  /\ subscribes' = [subscribes EXCEPT ![Top.ws] = @ + 1]
  /\ stack' = SetPc("open")
  /\ UNCHANGED <<global_websocket, ping_thread_running, nconn, slept, pongs, last_ping,
                 heartbeats>>
  /\ UnchangedThreads /\ UnchangedLedger /\ UnchangedHistory

\* the connection fails (connect refused, read error): the library calls on_error,
\* which logs and calls reconnect_websocket; the library tears the connection
\* down ("teardown") once on_error has returned
on_error ==
  /\ stack # <<>> /\ Top.fn = "run_forever" /\ Top.pc \in {"connect", "open"}
  /\ sock' = [sock EXCEPT ![Top.ws] = "error"]
  /\ ledger_at_close' = global_data
  /\ stack' = Call(Call(stack, "teardown", Frame("on_error", "L102", Top.ws)),
                   "ret", Frame("reconnect_websocket", "L314", Top.ws))
  /\ UNCHANGED <<global_websocket, ping_thread_running, nconn, slept,
                 attempt_delay, rejected>>
  /\ UnchangedThreads /\ UnchangedSent /\ UnchangedLedger

\* the transport is closed, by the peer or by close() on the handle, or the library
\* tears the connection down after an error: it releases the socket and calls
\* on_close, which is not told why
WsClose ==
  /\ stack # <<>> /\ Top.fn = "run_forever" /\ Top.pc \in {"open", "teardown"}
  /\ sock' = [sock EXCEPT ![Top.ws] = "closed"]
  /\ ledger_at_close' = IF Top.pc = "open" THEN global_data ELSE ledger_at_close
  /\ stack' = Call(stack, "closed", Frame("on_close", "L108", Top.ws))
  /\ UNCHANGED <<global_websocket, ping_thread_running, nconn, slept,
                 attempt_delay, rejected>>
  /\ UnchangedThreads /\ UnchangedSent /\ UnchangedLedger

\* ------------------------------------------------------------- on_close
on_close_L108 ==
  /\ At("on_close", "L108")
  /\ global_websocket' = 0
  /\ stack' = SetPc("L109")
  /\ UNCHANGED <<ping_thread_running, sock, nconn, slept>>
  /\ UnchangedThreads /\ UnchangedSent /\ UnchangedLedger /\ UnchangedHistory

\* lines 109-111: the flag is cleared, then reconnect_websocket is called
on_close_L109 ==
  /\ At("on_close", "L109")
  /\ ping_thread_running' = FALSE
  /\ stack' = Call(stack, "ret", Frame("reconnect_websocket", "L314", Top.ws))
  /\ UNCHANGED <<global_websocket, sock, nconn, slept>>
  /\ UnchangedThreads /\ UnchangedSent /\ UnchangedLedger /\ UnchangedHistory

\* --------------------------------------------------- reconnect_websocket
\* the argument of time.sleep in reconnect_websocket
ReconnectSleep == ReconnectDelay

reconnect_websocket_L314 ==
  /\ At("reconnect_websocket", "L314")
  /\ ping_thread_running' = FALSE
  /\ slept' = 0
  /\ stack' = SetPc("L315")
  /\ UNCHANGED <<global_websocket, sock, nconn>>
  /\ UnchangedThreads /\ UnchangedSent /\ UnchangedLedger /\ UnchangedHistory

\* lines 315-316: time.sleep(5) returns and start_websocket is called
reconnect_websocket_L315 ==
  /\ At("reconnect_websocket", "L315")
  /\ slept >= ReconnectSleep
  /\ stack' = Call(stack, "ret", Frame("start_websocket", "L293", 0))
  /\ UNCHANGED <<global_websocket, ping_thread_running, sock, nconn, slept>>
  /\ UnchangedThreads /\ UnchangedSent /\ UnchangedLedger /\ UnchangedHistory

\* ------------------------------------------------- send_ping (keepalive thread)
\* while ping_thread_running:
send_ping_L275(t) ==
  /\ tpc[t] = "while"
  /\ tpc' = [tpc EXCEPT ![t] = IF ping_thread_running THEN "test" ELSE "exit"]
  /\ UNCHANGED <<global_websocket, ping_thread_running, stack, sock, nconn, slept,
                 tslept>>
  /\ UnchangedSent /\ UnchangedLedger /\ UnchangedHistory

\* global_websocket and global_websocket.sock: the handle and its socket exist
SockPresent == global_websocket # 0 /\ sock[global_websocket] \in {"open", "error"}

\* if global_websocket and global_websocket.sock:
send_ping_L277(t) ==
  /\ tpc[t] = "test"
  /\ tpc' = [tpc EXCEPT ![t] = IF SockPresent THEN "send" ELSE "halt"]
  /\ UNCHANGED <<global_websocket, ping_thread_running, stack, sock, nconn, slept,
                 tslept>>
  /\ UnchangedSent /\ UnchangedLedger /\ UnchangedHistory

\* global_websocket.send(ping): the send succeeds on an open socket; on a released
\* handle (None) or a socket that is not open it raises, and the except clause
\* halts the loop
send_ping_L279(t) ==
  /\ tpc[t] = "send"
  /\ IF global_websocket # 0 /\ sock[global_websocket] = "open"
       THEN /\ last_ping' = <<t, global_websocket>>
            /\ tpc' = [tpc EXCEPT ![t] = "sleep"]
            /\ tslept' = [tslept EXCEPT ![t] = 0]
       ELSE /\ tpc' = [tpc EXCEPT ![t] = "halt"]
            /\ UNCHANGED <<last_ping, tslept>>
  /\ UNCHANGED <<global_websocket, ping_thread_running, stack, sock, nconn, slept,
                 subscribes, pongs, heartbeats>>
  /\ UnchangedLedger /\ UnchangedHistory

\* ping_thread_running = False (lines 283 and 286), then on to time.sleep(30)
send_ping_halt(t) ==
  /\ tpc[t] = "halt"
  /\ ping_thread_running' = FALSE
  /\ tpc' = [tpc EXCEPT ![t] = "sleep"]
  /\ tslept' = [tslept EXCEPT ![t] = 0]
  /\ UNCHANGED <<global_websocket, stack, sock, nconn, slept>>
  /\ UnchangedSent /\ UnchangedLedger /\ UnchangedHistory

\* lines 287 and 275: time.sleep(30) returns and the loop condition is read again
send_ping_L287(t) ==
  /\ tpc[t] = "sleep"
  /\ tslept[t] >= PingInterval
  /\ tpc' = [tpc EXCEPT ![t] = IF ping_thread_running THEN "test" ELSE "exit"]
  /\ tslept' = [tslept EXCEPT ![t] = 0]
  /\ UNCHANGED <<global_websocket, ping_thread_running, stack, sock, nconn, slept>>
  /\ UnchangedSent /\ UnchangedLedger /\ UnchangedHistory

\* ------------------------------------------------------------------ time
MainSleeping == At("reconnect_websocket", "L315") /\ slept < ReconnectSleep

PingSleeping(t) == tpc[t] = "sleep" /\ tslept[t] < PingInterval

\* the time left of each running sleep
MainLeft == IF MainSleeping THEN {ReconnectSleep - slept} ELSE {}

PingLeft == {PingInterval - tslept[t] : t \in {u \in Conns : PingSleeping(u)}}

Least(S) == CHOOSE x \in S : \A y \in S : x <= y

\* time passes up to the moment the first running sleep ends; a thread may stay
\* asleep longer than it asked for, so nothing forces it to wake at that moment
Tick ==
  /\ MainLeft \cup PingLeft # {}
  /\ LET d == Least(MainLeft \cup PingLeft) IN
       /\ slept' = IF MainSleeping THEN slept + d ELSE slept
       /\ tslept' = [t \in Conns |->
                       IF PingSleeping(t) THEN tslept[t] + d ELSE tslept[t]]
  /\ UNCHANGED <<global_websocket, ping_thread_running, stack, sock, nconn, tpc>>
  /\ UnchangedSent /\ UnchangedLedger /\ UnchangedHistory

\* ------------------------------------------------------------ the ledger
\* the missing timestamp (NaT) pandas fills in for a row that has no 'time' column
NaT == 0

Row(time, price, volume) == [time |-> time, price |-> price, volume |-> volume]

\* update_global_data: pd.concat(..., ignore_index=True) drops the index of the
\* ledger so far, which is where set_index('time') of the previous call had moved
\* the timestamps; the old rows get NaT in the new 'time' column, and
\* set_index('time') makes that column the index again
update_global_data(ledger, entry) ==
  Append([k \in 1..Len(ledger) |-> [ledger[k] EXCEPT !.time = NaT]], entry)

\* ------------------------------------------------------------ on_message
\* the elements of a trade payload: a well-formed trade [price, volume, time], an
\* element that is no list of three or more fields (line 50 fails), and an element
\* with a field float() rejects (lines 51-55 raise)
FeedTicks == {Row(1, 100, 1), Row(2, 101, 2)}

Entries == [kind : {"tick"}, tick : FeedTicks]
             \cup {[kind |-> "short", tick |-> Row(NaT, 0, 0)],
                   [kind |-> "bad", tick |-> Row(NaT, 0, 0)]}

Batches == UNION {[1..n -> Entries] : n \in 0..MaxBatch}

\* the trades the for loop of lines 49-62 hands to update_global_data: every
\* well-formed element, up to the first element whose conversion raises
RECURSIVE Forwarded(_)
Forwarded(entries) ==
  IF entries = <<>> THEN <<>>
  ELSE LET e == Head(entries) IN
       CASE e.kind = "tick" -> <<e.tick>> \o Forwarded(Tail(entries))
         [] e.kind = "short" -> Forwarded(Tail(entries))
         [] OTHER -> <<>>

RECURSIVE AppendAll(_, _)
AppendAll(ledger, ticks) ==
  IF ticks = <<>> THEN ledger
  ELSE AppendAll(update_global_data(ledger, Head(ticks)), Tail(ticks))

\* the frames that change nothing but the log: a list that is no trade batch of
\* PAIR, pong, systemStatus, subscriptionStatus 'subscribed', an unknown event,
\* a value that is neither list nor dict, and text json.loads rejects
QuietKinds == {"other_list", "pong", "systemStatus", "subscribed", "other_event",
               "other", "not_json"}

Dispatching == At("run_forever", "open")

\* float() raises at some element of the payload (lines 51-55)
Raises(entries) == \E k \in DOMAIN entries : entries[k].kind = "bad"

on_message_trade ==
  /\ Dispatching
  /\ \E batch \in Batches :
       /\ Len(global_data) + Len(Forwarded(batch)) <= MaxTicks
       /\ global_data' = AppendAll(global_data, Forwarded(batch))
       /\ feed_ticks' = feed_ticks \o Forwarded(batch)
       /\ decode_error' = Raises(batch)
  /\ UNCHANGED <<global_websocket, ping_thread_running, stack, sock, nconn, slept,
                 strategy_calls, strategy_vars>>
  /\ UnchangedThreads /\ UnchangedSent /\ UnchangedHistory

\* send_pong(ws): one pong message sent on ws
send_pong_dropped(sent, ws) == sent

send_pong(sent, ws) == [sent EXCEPT ![ws] = @ + 1]

\* heartbeat: send_pong(ws) sends on the connection the frame arrived on
on_message_heartbeat ==
  /\ Dispatching
  /\ \A c \in Conns : heartbeats[c] < MaxPongs
  /\ heartbeats' = [heartbeats EXCEPT ![Top.ws] = @ + 1]
  /\ pongs' = send_pong(pongs, Top.ws)
  /\ decode_error' = FALSE
  /\ UNCHANGED <<global_websocket, ping_thread_running, stack, sock, nconn, slept,
                 subscribes, last_ping>>
  /\ UNCHANGED <<global_data, feed_ticks, strategy_calls, strategy_vars>>
  /\ UnchangedThreads /\ UnchangedHistory

\* subscriptionStatus with a status other than 'subscribed': logged (line 80)
on_message_subscription_error ==
  /\ Dispatching
  /\ rejected' = Top.ws
  /\ decode_error' = FALSE
  /\ UNCHANGED <<global_websocket, ping_thread_running, stack, sock, nconn, slept,
                 attempt_delay, ledger_at_close>>
  /\ UNCHANGED <<global_data, feed_ticks, strategy_calls, strategy_vars>>
  /\ UnchangedThreads /\ UnchangedSent

\* a frame that is only logged; json.loads raising ends in the except clause
on_message_quiet ==
  /\ Dispatching
  /\ \E kind \in QuietKinds : decode_error' = (kind = "not_json")
  /\ UNCHANGED <<global_websocket, ping_thread_running, stack, sock, nconn, slept,
                 global_data, feed_ticks, strategy_calls, strategy_vars>>
  /\ UnchangedThreads /\ UnchangedSent /\ UnchangedHistory

on_message ==
  \/ on_message_trade
  \/ on_message_heartbeat
  \/ on_message_subscription_error
  \/ on_message_quiet

\* ------------------------------------------------------ backtest_strategy
FastWindow == 50
SlowWindow == 200

\* a missing value: entry_price None (line 153), the NaN of column 'entry_price'
Missing == 0

Frames(times, prices) ==
  [time |-> times, price |-> prices,
   position |-> [k \in DOMAIN prices |-> 0],
   entry_price |-> [k \in DOMAIN prices |-> Missing],
   pnl |-> [k \in DOMAIN prices |-> 0]]

NoData == Frames(<<>>, <<>>)

RECURSIVE SumFrom(_, _, _)
SumFrom(prices, lo, hi) ==
  IF lo > hi THEN 0
  ELSE IF lo = hi THEN prices[lo]
  ELSE LET mid == (lo + hi) \div 2 IN
       SumFrom(prices, lo, mid) + SumFrom(prices, mid + 1, hi)

\* rolling(window).mean() at row k is defined once the window is full
RollingDefinedFast(k, window) == k >= FastWindow

RollingDefined(k, window) == k >= window

\* the sum of the window that ends at row k: the last `window` rows, or all rows
\* up to k while there are fewer; in a full window this is
\* window * rolling(window).mean() in exact arithmetic
RollingSum(prices, k, window) ==
  SumFrom(prices, IF k > window THEN k - window + 1 ELSE 1, k)

\* SMA_50 > SMA_200 and SMA_50 < SMA_200 at row k (lines 158, 165)
FastAboveSlowOrEqual(prices, k) ==
  RollingSum(prices, k, FastWindow) * SlowWindow
    >= RollingSum(prices, k, SlowWindow) * FastWindow

FastAboveSlow(prices, k) ==
  RollingSum(prices, k, FastWindow) * SlowWindow
    > RollingSum(prices, k, SlowWindow) * FastWindow

FastBelowSlow(prices, k) ==
  RollingSum(prices, k, FastWindow) * SlowWindow
    < RollingSum(prices, k, SlowWindow) * FastWindow

\* price < entry_price * (1 - 0.02), line 173
LongStopLoss(price, entry) == price * 100 < entry * 98

\* price > entry_price * (1 + 0.03), line 181
LongTakeProfitInclusive(price, entry) == price * 100 >= entry * 103

LongTakeProfit(price, entry) == price * 100 > entry * 103

\* price > entry_price * (1 + 0.02), line 198
ShortStopLossInclusive(price, entry) == price * 100 >= entry * 102

ShortStopLoss(price, entry) == price * 100 > entry * 102

\* price < entry_price * (1 - 0.03), line 206
ShortTakeProfit(price, entry) == price * 100 < entry * 97

\* price < SMA_50 (line 189) and price > SMA_50 (line 214) at row k
BelowFast(prices, k) == prices[k] * FastWindow < RollingSum(prices, k, FastWindow)

AboveFast(prices, k) == prices[k] * FastWindow > RollingSum(prices, k, FastWindow)

\* data.at[data.index[k], column] = value: with a label that is not unique .at
\* assigns through .loc, to every row that carries the label
SetAt(column, times, k, value) ==
  [j \in DOMAIN column |-> IF times[j] = times[k] THEN value ELSE column[j]]

\* execute_trade(action): one order request handed to the trading API
execute_trade_twice(log, action, k) ==
  Append(Append(log, [side |-> action, row |-> k, call |-> strategy_calls]),
         [side |-> action, row |-> k, call |-> strategy_calls])

execute_trade(log, action, k) ==
  Append(log, [side |-> action, row |-> k, call |-> strategy_calls])

\* what kraken.query_private does with the request: the order is placed, the API
\* answers with an error response (logged like a placed order, lines 260 and 268),
\* or the call raises
OrderResults == {"placed", "error_response", "raised"}

\* the exception handler of execute_trade (lines 269-270) catches every Exception
\* and logs it: no result of the request leaves execute_trade as an exception
PropagatesRaised(result) == result = "raised"

Propagates(result) == FALSE

\* the branch of lines 172-196 taken at row k while long, by its log line
LongBranch(k) ==
  IF LongStopLoss(data.price[k], entry_price) THEN "long_stop_loss"
  ELSE IF LongTakeProfit(data.price[k], entry_price) THEN "long_take_profit"
  ELSE IF BelowFast(data.price, k) THEN "long_exit"
  ELSE "none"

\* the branch of lines 197-221 taken at row k while short, by its log line
ShortBranch(k) ==
  IF ShortStopLoss(data.price[k], entry_price) THEN "short_stop_loss"
  ELSE IF ShortTakeProfit(data.price[k], entry_price) THEN "short_take_profit"
  ELSE IF AboveFast(data.price, k) THEN "short_exit"
  ELSE "none"

\* lines 159-164 and 166-171
Enter(k, side, action, line) ==
  /\ position' = side
  /\ entry_price' = data.price[k]
  /\ data' = [data EXCEPT !.position = SetAt(@, data.time, k, side),
                          !.entry_price = SetAt(@, data.time, k, data.price[k])]
  /\ logged' = line
  /\ orders' = execute_trade(orders, action, k)
  /\ order_result' \in OrderResults

\* lines 174-180 and the five blocks like it
Exit(k, pnl, action, line) ==
  /\ position' = 0
  /\ entry_price' = Missing
  /\ data' = [data EXCEPT !.position = SetAt(@, data.time, k, 0),
                          !.pnl = SetAt(@, data.time, k, pnl)]
  /\ logged' = line
  /\ orders' = execute_trade(orders, action, k)
  /\ order_result' \in OrderResults

NoAction ==
  /\ logged' = "none"
  /\ order_result' = "none"
  /\ UNCHANGED <<position, entry_price, data, orders>>

\* one pass of the loop body (lines 156-221) at row k
LoopBody(k) ==
  IF RollingDefined(k, FastWindow) /\ RollingDefined(k, SlowWindow)
    THEN CASE position = 0 /\ FastAboveSlow(data.price, k) ->
                Enter(k, 1, "buy", "long_entry")
           [] position = 0 /\ FastBelowSlow(data.price, k) ->
                Enter(k, -1, "sell", "short_entry")
           [] position = 1 /\ LongBranch(k) # "none" ->
                Exit(k, data.price[k] - entry_price, "sell", LongBranch(k))
           [] position = -1 /\ ShortBranch(k) # "none" ->
                Exit(k, entry_price - data.price[k], "buy", ShortBranch(k))
           [] OTHER -> NoAction
    ELSE NoAction

\* lines 144-153: the call; the columns and the position start afresh
backtest_strategy_L145 ==
  /\ spc \in {"idle", "done"}
  /\ data.price # <<>>
  /\ strategy_calls < MaxEvals
  /\ strategy_calls' = strategy_calls + 1
  /\ data' = Frames(data.time, data.price)
  /\ position' = 0
  /\ entry_price' = Missing
  /\ i' = FastWindow + 1
  /\ spc' = "loop"
  /\ UNCHANGED <<orders, logged, sharpe, order_result>>
  /\ UNCHANGED <<global_websocket, ping_thread_running, stack, sock, nconn, slept,
                 global_data, feed_ticks, decode_error>>
  /\ UnchangedThreads /\ UnchangedSent /\ UnchangedHistory

\* line 155: one iteration of for i in range(50, len(data)); an exception that
\* left execute_trade would end the call of backtest_strategy there
backtest_strategy_L155 ==
  /\ spc = "loop"
  /\ i <= Len(data.price)
  /\ LoopBody(i)
  /\ i' = i + 1
  /\ spc' = IF Propagates(order_result') THEN "raised" ELSE spc
  /\ UNCHANGED <<sharpe, strategy_calls>>
  /\ UNCHANGED <<global_websocket, ping_thread_running, stack, sock, nconn, slept,
                 global_data, feed_ticks, decode_error>>
  /\ UnchangedThreads /\ UnchangedSent /\ UnchangedHistory

\* data['pnl'].std() != 0: the column holds two different values
PnlSpread == \E j, k \in DOMAIN data.pnl : data.pnl[j] # data.pnl[k]

\* lines 223-235: the loop is over; the metrics are logged
backtest_strategy_L223 ==
  /\ spc = "loop"
  /\ i > Len(data.price)
  /\ sharpe' = IF PnlSpread THEN "value" ELSE "nan"
  /\ spc' = "done"
  /\ UNCHANGED <<data, position, entry_price, i, orders, logged, strategy_calls,
                 order_result>>
  /\ UNCHANGED <<global_websocket, ping_thread_running, stack, sock, nconn, slept,
                 global_data, feed_ticks, decode_error>>
  /\ UnchangedThreads /\ UnchangedSent /\ UnchangedHistory

\* ------------------------------------------------------------- the session
Init ==
  /\ global_websocket = 0
  /\ ping_thread_running = FALSE
  /\ global_data = <<>>
  /\ stack = <<Frame("main", "L321", 0)>>
  /\ sock = [c \in Conns |-> "none"]
  /\ nconn = 0
  /\ tpc = [c \in Conns |-> "idle"]
  /\ tslept = [c \in Conns |-> 0]
  /\ slept = 0
  /\ subscribes = [c \in Conns |-> 0]
  /\ pongs = [c \in Conns |-> 0]
  /\ last_ping = <<0, 0>>
  /\ attempt_delay = [c \in Conns |-> 0]
  /\ feed_ticks = <<>>
  /\ ledger_at_close = <<>>
  /\ rejected = 0
  /\ strategy_calls = 0
  /\ heartbeats = [c \in Conns |-> 0]
  /\ decode_error = FALSE
  /\ data = NoData
  /\ position = 0
  /\ entry_price = Missing
  /\ i = 0
  /\ spc = "idle"
  /\ orders = <<>>
  /\ logged = "none"
  /\ sharpe = "none"
  /\ order_result = "none"

MainThread ==
  \/ main
  \/ start_websocket_L293
  \/ start_websocket_L304
  \/ start_websocket_L305
  \/ start_websocket_L310
  \/ on_close_L108
  \/ on_close_L109
  \/ reconnect_websocket_L314
  \/ reconnect_websocket_L315

Library ==
  \/ on_open
  \/ on_message
  \/ on_error
  \/ WsClose

PingThread(t) ==
  \/ send_ping_L275(t)
  \/ send_ping_L277(t)
  \/ send_ping_L279(t)
  \/ send_ping_halt(t)
  \/ send_ping_L287(t)

Next ==
  \/ MainThread
  \/ Library
  \/ \E t \in Conns : PingThread(t)
  \/ Tick

Spec == Init /\ [][Next]_vars

\* ------------------------------------------------- the strategy on its own
\* the price series: SlowWindow - 1 rows of history, the older rows at one price and
\* the last FastWindow - 1 rows at another, then up to FreeTicks rows of any price
Histories == {<<90, 90>>, <<99, 100>>, <<100, 100>>, <<101, 100>>, <<110, 110>>}

PriceSet == {96, 97, 98, 100, 102, 103, 104}

History(h) ==
  [k \in 1..(SlowWindow - 1) |-> IF k <= SlowWindow - FastWindow THEN h[1] ELSE h[2]]

Series ==
  {History(h) \o free : h \in Histories,
                        free \in UNION {[1..n -> PriceSet] : n \in 1..FreeTicks}}

\* the index: one timestamp per row, or the last two rows on the same timestamp
UniqueTimes(n) == [k \in 1..n |-> k]

TiedTimes(n) == [k \in 1..n |-> IF k = n THEN n - 1 ELSE k]

InitStrategy ==
  /\ global_websocket = 0
  /\ ping_thread_running = FALSE
  /\ global_data = <<>>
  /\ stack = <<Frame("main", "L321", 0)>>
  /\ sock = [c \in Conns |-> "none"]
  /\ nconn = 0
  /\ tpc = [c \in Conns |-> "idle"]
  /\ tslept = [c \in Conns |-> 0]
  /\ slept = 0
  /\ subscribes = [c \in Conns |-> 0]
  /\ pongs = [c \in Conns |-> 0]
  /\ last_ping = <<0, 0>>
  /\ attempt_delay = [c \in Conns |-> 0]
  /\ feed_ticks = <<>>
  /\ ledger_at_close = <<>>
  /\ rejected = 0
  /\ strategy_calls = 0
  /\ heartbeats = [c \in Conns |-> 0]
  /\ decode_error = FALSE
  /\ \E prices \in Series :
       \E times \in {UniqueTimes(Len(prices)), TiedTimes(Len(prices))} :
         data = Frames(times, prices)
  /\ position = 0
  /\ entry_price = Missing
  /\ i = 0
  /\ spc = "idle"
  /\ orders = <<>>
  /\ logged = "none"
  /\ sharpe = "none"
  /\ order_result = "none"

NextStrategy ==
  \/ backtest_strategy_L145
  \/ backtest_strategy_L155
  \/ backtest_strategy_L223

SpecStrategy == InitStrategy /\ [][NextStrategy]_vars

\* ===================================================================
\* The claims
\* ===================================================================
Alive(t) == tpc[t] \in {"while", "test", "send", "sleep"}

IsPrefix(a, b) == Len(a) <= Len(b) /\ \A k \in 1..Len(a) : a[k] = b[k]

\* C1: the keepalive loop of an earlier connection has stopped for good once a
\* later connection exists, so a loop that wakes from its sleep and goes on with
\* another iteration is the loop of the latest connection.
C1_OldLoopStaysStopped ==
  [][\A t \in Conns : (tpc[t] = "sleep" /\ tpc'[t] = "test") => nconn = t]_vars

\* C2: while a connection is established and being served, a keepalive loop is
\* running, whatever the interleaving of start_websocket and the thread it starts.
C2_KeepaliveRunsWhileOpen ==
  Dispatching => \E t \in Conns : Alive(t)

\* C3: every connection after the first is attempted only after the full delay,
\* an opened connection has sent exactly one subscribe request, and the ledger as
\* it was when the last connection failed is still the beginning of the ledger,
\* which holds one row per tick received.
C3_ReconnectKeepsLedger ==
  /\ \A c \in 2..nconn : attempt_delay[c] = ReconnectDelay
  /\ \A c \in Conns : subscribes[c] <= 1 /\ (sock[c] = "open" => subscribes[c] = 1)
  /\ Len(global_data) = Len(feed_ticks)
  /\ IsPrefix(ledger_at_close, global_data)

\* C4: no error ends the session; the program has no shutdown request, so the
\* main thread never runs out of code.
C4_SessionNeverEnds == stack # <<>>

\* C5: once the venue has refused the subscription of a connection, that
\* connection is no longer served: the reconnect policy has taken over.
C5_RejectionReconnects ==
  rejected # 0 => ~(Dispatching /\ Top.ws = rejected)

\* C6: every tick decoded from the feed is in the ledger and has been handed to
\* the strategy, which has been evaluated once per tick.
C6_TicksReachStrategy ==
  /\ Len(global_data) = Len(feed_ticks)
  /\ strategy_calls = Len(feed_ticks)

\* C7: the ledger reads back exactly the ticks appended, in order, each with the
\* timestamp, price and volume it was appended with.
C7_LedgerKeepsTicks == global_data = feed_ticks

\* ------------------------------------------------------------ the strategy
\* the loop body is about to run at row i
AtRow == spc = "loop" /\ i <= Len(data.price)

FastSum == SumFrom(data.price, i - FastWindow + 1, i)

TheOrder(action) == [side |-> action, row |-> i, call |-> strategy_calls]

\* what a tick does to a long position, given which of the three exit conditions
\* hold: the first that holds exits (to flat, one sell, pnl = price - entry price)
\* and names the log line; none holding, the position stays with no order. An
\* exit by take-profit right after the entry ends a cycle of two orders, the buy
\* of the entry and this sell.
LongOutcome(stop, take, trend) ==
  LET line == IF stop THEN "long_stop_loss"
              ELSE IF take THEN "long_take_profit"
              ELSE IF trend THEN "long_exit" ELSE "none"
  IN /\ logged' = line
     /\ line # "none" =>
          /\ position' = 0
          /\ entry_price' = Missing
          /\ orders' = Append(orders, TheOrder("sell"))
          /\ data'.pnl[i] = data.price[i] - entry_price
     /\ line = "none" => UNCHANGED <<position, entry_price, orders, data>>
     /\ (take /\ logged = "long_entry") =>
          /\ position' = 0
          /\ orders # <<>>
          /\ orders[Len(orders)] = [TheOrder("buy") EXCEPT !.row = i - 1]
          /\ orders' = Append(orders, TheOrder("sell"))

\* C8 as stated: stop-loss at price <= 0.98 x entry price and take-profit at
\* price >= 1.03 x entry price, the boundaries included.
C8_LongExitInclusive ==
  [][(AtRow /\ position = 1) =>
       LongOutcome(data.price[i] * 100 <= entry_price * 98,
                   data.price[i] * 100 >= entry_price * 103,
                   data.price[i] * FastWindow < FastSum)]_vars

\* C8 as amended: while long, each tick exits by stop-loss when price is below
\* 0.98 x entry price, else by take-profit when price is above 1.03 x entry price,
\* else by trend reversal when price is below the fast average, else stays long
\* with no order; a price exactly on a boundary triggers neither stop-loss nor
\* take-profit.
C8_LongExitStrict ==
  [][(AtRow /\ position = 1) =>
       LongOutcome(data.price[i] * 100 < entry_price * 98,
                   data.price[i] * 100 > entry_price * 103,
                   data.price[i] * FastWindow < FastSum)]_vars

\* a long position entered at one row was closed by take-profit at the next
C8_Witness ==
  /\ spc = "loop"
  /\ logged = "long_take_profit"
  /\ position = 0
  /\ Len(orders) = 2
  /\ orders[1].side = "buy" /\ orders[1].row = i - 2
  /\ orders[2].side = "sell" /\ orders[2].row = i - 1
  /\ data.pnl[i - 1] = data.price[i - 1] - data.price[i - 2]
  /\ data.price[i - 1] * 100 > data.price[i - 2] * 103

\* what a tick does to a short position: it exits (to flat, one buy, pnl = entry
\* price - price) exactly when one of the three conditions holds, by stop-loss
\* with a negative pnl when the stop-loss condition holds; otherwise it stays
\* short with no order.
ShortOutcome(stop, take, trend) ==
  /\ (stop \/ take \/ trend) =>
       /\ position' = 0
       /\ entry_price' = Missing
       /\ logged' \in {"short_stop_loss", "short_take_profit", "short_exit"}
       /\ orders' = Append(orders, TheOrder("buy"))
       /\ data'.pnl[i] = entry_price - data.price[i]
  /\ ~(stop \/ take \/ trend) =>
       /\ logged' = "none"
       /\ UNCHANGED <<position, entry_price, orders, data>>
  /\ stop => (logged' = "short_stop_loss" /\ data'.pnl[i] < 0)

\* C9 as stated: stop-loss at price >= 1.02 x entry price and take-profit at
\* price <= 0.97 x entry price, the boundaries included.
C9_ShortExitInclusive ==
  [][(AtRow /\ position = -1) =>
       ShortOutcome(data.price[i] * 100 >= entry_price * 102,
                    data.price[i] * 100 <= entry_price * 97,
                    data.price[i] * FastWindow > FastSum)]_vars

\* C9 as amended: while short, a tick exits exactly when price is above
\* 1.02 x entry price (stop-loss), or below 0.97 x entry price (take-profit), or
\* above the fast average; a price exactly on a boundary triggers neither
\* stop-loss nor take-profit.
C9_ShortExitStrict ==
  [][(AtRow /\ position = -1) =>
       ShortOutcome(data.price[i] * 100 > entry_price * 102,
                    data.price[i] * 100 < entry_price * 97,
                    data.price[i] * FastWindow > FastSum)]_vars

\* a short position entered at one row was closed by stop-loss at the next, at a loss
C9_Witness ==
  /\ spc = "loop"
  /\ logged = "short_stop_loss"
  /\ position = 0
  /\ Len(orders) = 2
  /\ orders[1].side = "sell" /\ orders[1].row = i - 2
  /\ orders[2].side = "buy" /\ orders[2].row = i - 1
  /\ data.pnl[i - 1] = data.price[i - 2] - data.price[i - 1]
  /\ data.pnl[i - 1] < 0

\* C10: a position transition causes at most one order over the engine's
\* lifetime: no two orders were emitted for the transition at the same row,
\* however often the strategy is evaluated.
C10_OneOrderPerTransition ==
  \A a, b \in DOMAIN orders : a # b => orders[a].row # orders[b].row

\* C11: a failed order placement, by an exception or by an error response of the
\* API, is only logged: the strategy goes on to the next row, and the transition
\* that emitted the order is committed in full, the position, the entry price and
\* the pnl of the row being those of the transition logged.
C11_OrderFailureOnlyLogged ==
  [][(AtRow /\ order_result' \in {"error_response", "raised"}) =>
       /\ spc' = "loop" /\ i' = i + 1
       /\ Len(orders') = Len(orders) + 1
       /\ logged' \in {"long_entry", "short_entry"} =>
            /\ position' = (IF logged' = "long_entry" THEN 1 ELSE -1)
            /\ entry_price' = data.price[i]
       /\ logged' \in {"long_stop_loss", "long_take_profit", "long_exit"} =>
            /\ position' = 0 /\ entry_price' = Missing
            /\ data'.pnl[i] = data.price[i] - entry_price
       /\ logged' \in {"short_stop_loss", "short_take_profit", "short_exit"} =>
            /\ position' = 0 /\ entry_price' = Missing
            /\ data'.pnl[i] = entry_price - data.price[i]
       /\ logged' # "none"]_vars

\* the order of an exit raised, the exit was committed and the loop went on
C11_Witness ==
  /\ order_result = "raised"
  /\ spc = "loop"
  /\ logged = "long_take_profit"
  /\ position = 0 /\ entry_price = Missing
  /\ data.pnl[i - 1] = data.price[i - 1] - data.price[i - 2]
  /\ Len(orders) = 2

C13_CloseEndsSession ==
  [][nconn' > nconn => \A k \in DOMAIN stack : stack[k].fn # "on_close"]_vars

\* the orders of the evaluation under way, and the pnl of the trades it closed:
\* orders alternate between entry and exit, so every second order closes a trade
CallOrders == SelectSeq(orders, LAMBDA o : o.call = strategy_calls)

TradePnls == {data.pnl[CallOrders[2 * j].row] : j \in 1..(Len(CallOrders) \div 2)}

\* C14: when the pnl values of the trades recorded are all equal, no trade at all
\* included, the Sharpe ratio reported is not-a-number, however many ticks lie
\* between the trades.
C14_EqualPnlIsNaN ==
  (spc = "done" /\ Cardinality(TradePnls) <= 1) => sharpe = "nan"

\* C15: teardown and keepalive do not race: a keepalive thread that is about to
\* send its ping (line 279) finds the handle in place and its socket open, under
\* every interleaving with on_error and on_close.
C15_NoPingOnDeadHandle ==
  \A t \in Conns :
    tpc[t] = "send" => (global_websocket # 0 /\ sock[global_websocket] = "open")

\* C16: a frame whose decoding fails is dropped as a whole: a call of on_message
\* that ends in its except clause has appended no tick to the ledger.
C16_FailedFrameDropped ==
  [][decode_error' => global_data' = global_data]_vars

SlowSum == SumFrom(data.price, i - SlowWindow + 1, i)

\* C17: while flat, a tick with both averages defined enters long with one buy
\* exactly when the fast average is above the slow one, enters short with one sell
\* exactly when it is below, and does nothing when they are equal; the entry
\* price is the price of the tick, and the entry is all the tick does: the
\* position is not closed again and no second order is emitted at the same tick.
C17_FlatEntry ==
  [][(AtRow /\ position = 0 /\ i >= SlowWindow) =>
       /\ FastSum * SlowWindow > SlowSum * FastWindow =>
            /\ position' = 1
            /\ entry_price' = data.price[i]
            /\ orders' = Append(orders, TheOrder("buy"))
            /\ logged' = "long_entry"
       /\ FastSum * SlowWindow < SlowSum * FastWindow =>
            /\ position' = -1
            /\ entry_price' = data.price[i]
            /\ orders' = Append(orders, TheOrder("sell"))
            /\ logged' = "short_entry"
       /\ FastSum * SlowWindow = SlowSum * FastWindow =>
            /\ logged' = "none"
            /\ UNCHANGED <<position, entry_price, orders, data>>]_vars

\* the first tick with both averages defined had the fast average above the slow
\* one: the engine is long at that tick's price after one buy
C17_Witness ==
  /\ spc = "loop" /\ i = SlowWindow + 1
  /\ logged = "long_entry"
  /\ position = 1
  /\ entry_price = data.price[SlowWindow]
  /\ orders = <<[side |-> "buy", row |-> SlowWindow, call |-> 1]>>

\* C18: at a tick with fewer than SlowWindow prices up to and including it, the
\* slow average is undefined and the engine takes no action: the position and the
\* entry price are unchanged, no order is emitted and no pnl is recorded.
C18_NoActionBeforeSlowWindow ==
  [][(AtRow /\ i < SlowWindow) =>
       /\ logged' = "none"
       /\ UNCHANGED <<position, entry_price, orders, data>>]_vars

\* the loop has passed every row short of a full slow window and nothing happened
C18_Witness ==
  /\ spc = "loop" /\ i = SlowWindow
  /\ position = 0 /\ entry_price = Missing
  /\ orders = <<>>
  /\ \A k \in DOMAIN data.pnl : data.pnl[k] = 0

Count(side) == Cardinality({k \in DOMAIN CallOrders : CallOrders[k].side = side})

\* C19: within one evaluation of the strategy, after every tick the buys emitted
\* minus the sells emitted equal the position, which is -1, 0 or 1; the entry
\* price is set exactly when the position is not flat; and no tick has emitted
\* more than one order.
C19_OrdersMatchPosition ==
  /\ position \in {-1, 0, 1}
  /\ Count("buy") - Count("sell") = position
  /\ (entry_price # Missing) <=> (position # 0)
  /\ \A a, b \in DOMAIN CallOrders : a # b => CallOrders[a].row # CallOrders[b].row

\* the second evaluation of a series went short at one tick and covered at the next
C19_Witness ==
  /\ strategy_calls = 2 /\ spc = "loop"
  /\ Len(CallOrders) = 2
  /\ CallOrders[1].side = "sell" /\ CallOrders[2].side = "buy"
  /\ CallOrders[2].row = CallOrders[1].row + 1
  /\ position = 0

\* C20: reconnecting does not pile up control state: the dispatch loop of the
\* previous connection has returned when the next one starts, so at most one
\* invocation of run_forever is outstanding on the main thread.
C20_OneDispatchLoop ==
  Cardinality({k \in DOMAIN stack : stack[k].fn = "run_forever"}) <= 1

====
